---------------------------- MODULE Spec2Model ----------------------------
(***************************************************************************)
(* A model of the timsrust frame reader (src/io/readers/frame_reader.rs):  *)
(* construction of a FrameReader from the tables of a TDF container, and   *)
(* the decoding of compression type 2 blobs by FrameReader::get.           *)
(*                                                                         *)
(* Results of fallible operations are records [tag, val]:                  *)
(*   tag = "Ok"    val is the value,                                       *)
(*   tag = "Err"   val is the name of the FrameReaderError variant,        *)
(*   tag = "Panic" the thread unwinds (arithmetic overflow with overflow   *)
(*                 checks on, or a slice index out of bounds).             *)
(* An Option is a sequence of length at most one.                          *)
(***************************************************************************)
EXTENDS Integers, Sequences, FiniteSets, TLC

VARIABLES
    overflow_checks,   \* build profile: TRUE = overflow checks on (debug)
    timscompress,      \* build feature "timscompress" compiled in
    blob_store,        \* the binary file: binary offset -> blob (Option)
    reader,            \* the FrameReader (a Result), or NotConstructed
    outcome,           \* what the last call of get returned, with its index
    ctor,              \* the local variables of a running FrameReader::new
    threads,           \* per thread: the call of get it is in, if any
    returned,          \* per index: the first and the last result of get, and calls
    pf                 \* the parallel_filter(..).collect() in progress, if any

vars == <<overflow_checks, timscompress, blob_store, reader, outcome, ctor,
          threads, returned, pf>>

\* The build and the files on disk: nothing in the program writes them.
environment == <<overflow_checks, timscompress, blob_store>>

\* ------------------------------------------------------------------ bounds

\* u32 arithmetic is modelled modulo WordMod (2^32 in the program).
WordMod == 8
\* usize arithmetic is modelled modulo UsizeMod (2^64 in the program).
UsizeMod == 64
\* Blob words are drawn from 0..MaxWord and the largest word, WordMod - 1.
MaxWord == 4
\* Blobs have at most MaxBlobLen words.
MaxBlobLen == 5
\* The Frames table has at most MaxFrames rows.
MaxFrames == 2

Words == (0..MaxWord) \cup {WordMod - 1}

RECURSIVE SeqsUpTo(_, _)
SeqsUpTo(S, n) ==
    IF n = 0 THEN {<<>>}
    ELSE LET shorter == SeqsUpTo(S, n - 1)
         IN  shorter \cup {Append(s, x) : s \in {t \in shorter : Len(t) = n - 1}, x \in S}

Blobs == SeqsUpTo(Words, MaxBlobLen)

\* ----------------------------------------------------------------- results

Ok(v) == [tag |-> "Ok", val |-> v]
Err(e) == [tag |-> "Err", val |-> e]
Panic == [tag |-> "Panic", val |-> "panic"]
IsOk(r) == r.tag = "Ok"
IsErr(r, kind) == r.tag = "Err" /\ r.val.kind = kind
IsPanic(r) == r.tag = "Panic"

\* The variants of FrameReaderError the model produces.
CorruptFrame == Err([kind |-> "CorruptFrame", arg |-> 0])
IndexOutOfBounds == Err([kind |-> "IndexOutOfBounds", arg |-> 0])
CompressionTypeError(v) == Err([kind |-> "CompressionTypeError", arg |-> v])
TimscompressError == Err([kind |-> "TimscompressError", arg |-> 0])
TdfBlobReaderError == Err([kind |-> "TdfBlobReaderError", arg |-> 0])
SqlReaderError == Err([kind |-> "SqlReaderError", arg |-> 0])
MetadataReaderError == Err([kind |-> "MetadataReaderError", arg |-> 0])
QuadrupoleSettingsReaderError == Err([kind |-> "QuadrupoleSettingsReaderError", arg |-> 0])

None == <<>>
Some(x) == <<x>>

\* usize subtraction a - b: panics with overflow checks, wraps without.
usize_sub(a, b) ==
    IF a >= b THEN Ok(a - b)
    ELSE IF overflow_checks THEN Panic
    ELSE Ok(UsizeMod + a - b)

\* u32 addition.
u32_add(a, b) ==
    IF a + b < WordMod THEN Ok(a + b)
    ELSE IF overflow_checks THEN Panic
    ELSE Ok((a + b) % WordMod)

\* u32 subtraction.
u32_sub(a, b) ==
    IF a >= b THEN Ok(a - b)
    ELSE IF overflow_checks THEN Panic
    ELSE Ok(WordMod + a - b)

\* ------------------------------------------------------------------- blobs

\* TdfBlob::len: the number of 32-bit words of the blob.
blob_len(blob) == Len(blob)

\* TdfBlob::get(k): the k-th word (0-based), None out of range.
blob_get(blob, k) == IF k < Len(blob) THEN Some(blob[k + 1]) ELSE None

\* -------------------------------------------------------------- data model

\* QuadrupoleSettings are opaque: 0 is QuadrupoleSettings::default(), k >= 1
\* is the k-th element the QuadrupoleSettingsReader returned.
DefaultQuadrupoleSettings == 0

\* Frame::default()
DefaultFrame ==
    [scan_offsets |-> <<>>, tof_indices |-> <<>>, intensities |-> <<>>,
     index |-> 0, acquisition_type |-> "Unknown", ms_level |-> "Unknown",
     quadrupole_settings |-> DefaultQuadrupoleSettings, window_group |-> 0,
     maldi_info |-> None]

\* MSLevel::read_from_msms_type
read_from_msms_type(msms_type) ==
    CASE msms_type = 0 -> "MS1"
      [] msms_type = 8 -> "MS2"
      [] msms_type = 9 -> "MS2"
      [] OTHER -> "Unknown"

\* ------------------------------------------------------------ construction

\* A slip: without the backend, type 3 handed to the type-2 decoder.
check_compression_type_falls_back(compression_type) ==
    IF compression_type = 2 THEN Ok(2)
    ELSE IF compression_type = 3 THEN Ok(IF timscompress THEN 3 ELSE 2)
    ELSE CompressionTypeError(compression_type)

\* The match on the compression type the MetadataReader reports.
check_compression_type(compression_type) ==
    IF compression_type = 2 THEN Ok(2)
    ELSE IF timscompress /\ compression_type = 3 THEN Ok(3)
    ELSE CompressionTypeError(compression_type)

\* SqlReader::read_maldi_frame_info: no rows when the table does not exist.
read_maldi_frame_info(maldi_table) ==
    IF maldi_table = None THEN <<>> ELSE maldi_table[1]

\* A slip: the negation of is_empty dropped.
compute_is_maldi_negation_dropped(maldi_info) == maldi_info = <<>>

\* is_maldi = !maldi_info.is_empty()
compute_is_maldi(maldi_info) == ~(maldi_info = <<>>)

\* The HashMap collected from the MALDI rows, keyed by m.frame: of two rows
\* with one key the later one stays.
collect_maldi_map(maldi_info) ==
    LET keys == {maldi_info[k].frame : k \in 1..Len(maldi_info)}
        last(key) == CHOOSE k \in 1..Len(maldi_info) :
                        /\ maldi_info[k].frame = key
                        /\ \A j \in (k + 1)..Len(maldi_info) : maldi_info[j].frame # key
    IN  [key \in keys |-> maldi_info[last(key)]]

\* A slip: the test for MsMsType 9 made before the test for MsMsType 8.
detect_acquisition_dia_first(sql_frames) ==
    IF \E k \in 1..Len(sql_frames) : sql_frames[k].msms_type = 9 THEN "DIAPASEF"
    ELSE IF \E k \in 1..Len(sql_frames) : sql_frames[k].msms_type = 8 THEN "DDAPASEF"
    ELSE "Unknown"

\* The acquisition type found from the MsMsType column of the Frames table.
detect_acquisition(sql_frames) ==
    IF \E k \in 1..Len(sql_frames) : sql_frames[k].msms_type = 8 THEN "DDAPASEF"
    ELSE IF \E k \in 1..Len(sql_frames) : sql_frames[k].msms_type = 9 THEN "DIAPASEF"
    ELSE "Unknown"

\* The loop over the window-group rows from row k on: window_groups[frame - 1]
\* is assigned; frame = 0 underflows (a panic, or a wrap and then an index out
\* of bounds) and frame > len indexes out of bounds.
RECURSIVE assign_window_groups(_, _, _)
assign_window_groups(rows, k, window_groups) ==
    IF k > Len(rows) THEN Ok(window_groups)
    ELSE LET at == usize_sub(rows[k].frame, 1)
         IN  IF ~IsOk(at) \/ at.val >= Len(window_groups) THEN Panic
             ELSE assign_window_groups(
                      rows, k + 1,
                      [window_groups EXCEPT ![at.val + 1] = rows[k].window_group])

\* A slip: the grid coordinates of the MALDI row exchanged.
maldi_info_of_pixels_swapped(maldi) ==
    [spot_name      |-> maldi.spot_name,
     pixel_x        |-> maldi.y_index_pos,
     pixel_y        |-> maldi.x_index_pos,
     position_x_um  |-> maldi.x_position,
     position_y_um  |-> maldi.y_position,
     laser_power    |-> maldi.laser_power,
     laser_rep_rate |-> maldi.laser_rep_rate,
     laser_shots    |-> maldi.laser_shots]

\* The MaldiInfo built from a MALDI row.
maldi_info_of(maldi) ==
    [spot_name      |-> maldi.spot_name,
     pixel_x        |-> maldi.x_index_pos,
     pixel_y        |-> maldi.y_index_pos,
     position_x_um  |-> maldi.x_position,
     position_y_um  |-> maldi.y_position,
     laser_power    |-> maldi.laser_power,
     laser_rep_rate |-> maldi.laser_rep_rate,
     laser_shots    |-> maldi.laser_shots]

\* A slip: the window group used as the index, without the - 1.
quadrupole_settings_of_no_offset(window_group, quadrupole_settings) ==
    IF window_group >= Len(quadrupole_settings) THEN Panic
    ELSE Ok(quadrupole_settings[window_group + 1])

\* The quadrupole settings of a DIA MS2 frame: quadrupole_settings
\* [window_group as usize - 1].
quadrupole_settings_of(window_group, quadrupole_settings) ==
    LET at == usize_sub(window_group, 1)
    IN  IF ~IsOk(at) \/ at.val >= Len(quadrupole_settings) THEN Panic
        ELSE Ok(quadrupole_settings[at.val + 1])

\* get_frame_without_data; index is 0-based as in the code.
get_frame_without_data(index, sql_frames, acquisition, window_groups, quadrupole_settings, maldi_map) ==
    LET sql_frame == sql_frames[index + 1]
        ms_level == read_from_msms_type(sql_frame.msms_type)
        frame == [DefaultFrame EXCEPT
                     !.index = sql_frame.id,
                     !.ms_level = ms_level,
                     !.acquisition_type = acquisition,
                     !.maldi_info =
                         IF sql_frame.id \in DOMAIN maldi_map
                         THEN Some(maldi_info_of(maldi_map[sql_frame.id]))
                         ELSE None]
    IN  IF acquisition = "DIAPASEF" /\ ms_level = "MS2"
        THEN LET window_group == window_groups[index + 1]
                 settings == quadrupole_settings_of(window_group, quadrupole_settings)
             IN  IF ~IsOk(settings) THEN Panic
                 ELSE Ok([frame EXCEPT !.window_group = window_group,
                                       !.quadrupole_settings = settings.val])
        ELSE Ok(frame)

\* The largest NumScans of the Frames table (feature timscompress); the
\* expect panics on an empty table.
RECURSIVE max_scan_count(_, _, _)
max_scan_count(sql_frames, k, best) ==
    IF k > Len(sql_frames) THEN best
    ELSE max_scan_count(sql_frames, k + 1,
                        IF sql_frames[k].scan_count >= best
                        THEN sql_frames[k].scan_count ELSE best)

compute_scan_count(sql_frames) ==
    IF ~timscompress THEN Ok(0)
    ELSE IF sql_frames = <<>> THEN Panic
    ELSE Ok(max_scan_count(sql_frames, 1, 0))

compute_offsets(sql_frames) ==
    [k \in 1..Len(sql_frames) |-> sql_frames[k].binary_offset]

\* The FrameReader value assembled at the end of new.
make_reader(frames, acquisition, offsets, quadrupole_settings, compression_type, scan_count, is_maldi) ==
    [frames |-> frames,
     acquisition |-> acquisition,
     offsets |-> offsets,
     dia_windows |-> IF acquisition = "DIAPASEF" THEN Some(quadrupole_settings)
                     ELSE None,
     compression_type |-> compression_type,
     scan_count |-> scan_count,
     is_maldi |-> is_maldi]

\* The skeletons built by the parallel map over 0..len: a panic of one task
\* is the panic of the whole map.
build_frames(sql_frames, acquisition, window_groups, quadrupole_settings, maldi_map) ==
    LET built == [k \in 1..Len(sql_frames) |->
                     get_frame_without_data(k - 1, sql_frames, acquisition,
                                            window_groups, quadrupole_settings,
                                            maldi_map)]
    IN  IF \E k \in 1..Len(sql_frames) : ~IsOk(built[k]) THEN Panic
        ELSE Ok([k \in 1..Len(sql_frames) |-> built[k].val])

\* FrameReader::new on a container whose files and tables can all be read.
\* container.maldi_table is None when the MaldiFrameInfo table does not exist.
new(container) ==
    LET compression_type == check_compression_type(container.compression_type)
        sql_frames == container.sql_frames
        maldi_info == read_maldi_frame_info(container.maldi_table)
        is_maldi == compute_is_maldi(maldi_info)
        maldi_map == collect_maldi_map(maldi_info)
        acquisition == detect_acquisition(sql_frames)
        zeros == [k \in 1..Len(sql_frames) |-> 0]
        window_groups ==
            IF acquisition = "DIAPASEF"
            THEN assign_window_groups(container.window_group_rows, 1, zeros)
            ELSE Ok(zeros)
        quadrupole_settings ==
            IF acquisition = "DIAPASEF" THEN container.quadrupole_settings ELSE <<>>
        frames == build_frames(sql_frames, acquisition, window_groups.val,
                               quadrupole_settings, maldi_map)
        scan_count == compute_scan_count(sql_frames)
    IN  IF ~IsOk(compression_type) THEN compression_type
        ELSE IF timscompress /\ ~container.compressed_reader_ok THEN TimscompressError
        ELSE IF ~IsOk(window_groups) THEN Panic
        ELSE IF ~IsOk(frames) THEN Panic
        ELSE IF ~IsOk(scan_count) THEN Panic
        ELSE Ok(make_reader(frames.val, acquisition, compute_offsets(sql_frames),
                            quadrupole_settings, compression_type.val,
                            scan_count.val, is_maldi))

\* ------------------------------------------------- compression type 2 decode

\* The loop of read_scan_offsets from scan_index on; scan_offsets holds the
\* offsets pushed so far (scan_offsets[k] of the code is scan_offsets[k + 1]).
RECURSIVE read_scan_offsets_loop(_, _, _, _, _)
read_scan_offsets_loop(scan_index, last, peak_count, blob, scan_offsets) ==
    IF scan_index >= last
    THEN Ok(Append(scan_offsets, peak_count))
    ELSE LET word == blob_get(blob, scan_index + 1)
         IN  IF word = None THEN CorruptFrame
             ELSE read_scan_offsets_loop(
                      scan_index + 1, last, peak_count, blob,
                      Append(scan_offsets,
                             scan_offsets[scan_index + 1] + (word[1] \div 2)))

read_scan_offsets(scan_count, peak_count, blob) ==
    LET last == usize_sub(scan_count, 1)
    IN  IF ~IsOk(last) THEN Panic
        ELSE read_scan_offsets_loop(0, last.val, peak_count, blob, <<0>>)

RECURSIVE read_intensities_loop(_, _, _, _, _)
read_intensities_loop(peak_index, scan_count, peak_count, blob, intensities) ==
    IF peak_index >= peak_count
    THEN Ok(intensities)
    ELSE LET word == blob_get(blob, scan_count + 1 + 2 * peak_index)
         IN  IF word = None THEN CorruptFrame
             ELSE read_intensities_loop(peak_index + 1, scan_count, peak_count,
                                        blob, Append(intensities, word[1]))

read_intensities(scan_count, peak_count, blob) ==
    read_intensities_loop(0, scan_count, peak_count, blob, <<>>)

\* The inner loop of read_tof_indices over the peaks of one scan. Its value
\* is the tof_indices vector after the scan.
RECURSIVE read_tof_indices_peaks(_, _, _, _, _, _)
read_tof_indices_peaks(peak_index, end_offset, current_sum, scan_count, blob, tof_indices) ==
    IF peak_index >= end_offset
    THEN Ok(tof_indices)
    ELSE LET word == blob_get(blob, scan_count + 2 * peak_index)
         IN  IF word = None THEN CorruptFrame
             ELSE LET sum == u32_add(current_sum, word[1])
                  IN  IF ~IsOk(sum) THEN Panic
                      ELSE LET tof == u32_sub(sum.val, 1)
                           IN  IF ~IsOk(tof) THEN Panic
                               ELSE read_tof_indices_peaks(
                                        peak_index + 1, end_offset, sum.val,
                                        scan_count, blob,
                                        Append(tof_indices, tof.val))

\* The outer loop of read_tof_indices over the scans.
RECURSIVE read_tof_indices_scans(_, _, _, _, _)
read_tof_indices_scans(scan_index, scan_count, blob, scan_offsets, tof_indices) ==
    IF scan_index >= scan_count
    THEN Ok(tof_indices)
    ELSE LET start_offset == scan_offsets[scan_index + 1]
             end_offset   == scan_offsets[scan_index + 2]
             scan == read_tof_indices_peaks(start_offset, end_offset, 0,
                                            scan_count, blob, tof_indices)
         IN  IF ~IsOk(scan) THEN scan
             ELSE read_tof_indices_scans(scan_index + 1, scan_count, blob,
                                         scan_offsets, scan.val)

read_tof_indices(scan_count, peak_count, blob, scan_offsets) ==
    read_tof_indices_scans(0, scan_count, blob, scan_offsets, <<>>)

\* ------------------------------------------------------------------- get

\* FrameReader::len
len(self) == Len(self.frames)

\* FrameReader::get_dia_windows
get_dia_windows(self) == self.dia_windows

\* FrameReader::get_acquisition
get_acquisition(self) == self.acquisition

\* A slip: the wrong error variant for a position past the end.
get_frame_without_coordinates_wrong_error(self, index) ==
    IF index < Len(self.frames) THEN Ok(self.frames[index + 1])
    ELSE CorruptFrame

get_frame_without_coordinates(self, index) ==
    IF index < Len(self.frames) THEN Ok(self.frames[index + 1])
    ELSE IndexOutOfBounds

get_binary_offset(self, index) == self.offsets[index + 1]

\* TdfBlobReader::get(offset): the blob stored at the offset, an error when
\* the binary file holds no readable blob there.
tdf_bin_reader_get(offset) ==
    IF offset \in DOMAIN blob_store /\ blob_store[offset] # None
    THEN Ok(blob_store[offset][1])
    ELSE TdfBlobReaderError

\* The body of get_from_compression_type_2 after the blob is read.
decode_compression_type_2(frame, blob) ==
    LET header == blob_get(blob, 0)
        scan_count == header[1]
        rest == usize_sub(blob_len(blob), scan_count)
        peak_count == rest.val \div 2
        scan_offsets == read_scan_offsets(scan_count, peak_count, blob)
        intensities == read_intensities(scan_count, peak_count, blob)
        tof_indices == read_tof_indices(scan_count, peak_count, blob,
                                        scan_offsets.val)
    IN  IF header = None THEN CorruptFrame
        ELSE IF ~IsOk(rest) THEN Panic
        ELSE IF ~IsOk(scan_offsets) THEN scan_offsets
        ELSE IF ~IsOk(intensities) THEN intensities
        ELSE IF ~IsOk(tof_indices) THEN tof_indices
        ELSE Ok([frame EXCEPT !.scan_offsets = scan_offsets.val,
                              !.intensities = intensities.val,
                              !.tof_indices = tof_indices.val])

get_from_compression_type_2(self, index) ==
    LET frame == get_frame_without_coordinates(self, index)
        blob == tdf_bin_reader_get(get_binary_offset(self, index))
    IN  IF ~IsOk(frame) THEN frame
        ELSE IF ~IsOk(blob) THEN blob
        ELSE decode_compression_type_2(frame.val, blob.val)

\* CompressedTdfBlobReader::get_raw_frame_data of the timscompress library:
\* the decoded arrays are opaque to this model.
get_raw_frame_data(offset, scan_count) ==
    [scan_offsets |-> <<0, 1>>, tof_indices |-> <<offset>>,
     intensities |-> <<scan_count>>]

get_from_compression_type_3(self, index) ==
    LET frame == get_frame_without_coordinates(self, index)
        raw_frame == get_raw_frame_data(get_binary_offset(self, index),
                                        self.scan_count)
    IN  IF ~IsOk(frame) THEN frame
        ELSE Ok([frame.val EXCEPT !.tof_indices = raw_frame.tof_indices,
                                  !.intensities = raw_frame.intensities,
                                  !.scan_offsets = raw_frame.scan_offsets])

\* FrameReader::get
get(self, index) ==
    IF self.compression_type = 2 THEN get_from_compression_type_2(self, index)
    ELSE IF timscompress /\ self.compression_type = 3
         THEN get_from_compression_type_3(self, index)
    ELSE CompressionTypeError(self.compression_type)

\* ------------------------------------------------- decoding one blob

NotConstructed == [tag |-> "NotConstructed", val |-> "none"]
\* ctor when no construction is running.
Constructed == [pc |-> "done"]

\* The threads that call into the reader.
Threads == {"t1", "t2"}
IdleThread == [pc |-> "idle", job |-> "none", index |-> 0, frame |-> DefaultFrame,
               blob |-> <<>>]
NoThreads == [t \in Threads |-> IdleThread]
NoneReturned == <<>>

\* The record of the calls of get that returned, after one more returned:
\* per index the first result, the last result and whether get(index) has
\* returned more than once.
Record(index, result) ==
    [i \in DOMAIN returned \cup {index} |->
        IF i # index THEN returned[i]
        ELSE IF index \in DOMAIN returned
             THEN [first |-> returned[index].first, last |-> result, again |-> TRUE]
             ELSE [first |-> result, last |-> result, again |-> FALSE]]
NoFilter == [state |-> "idle", predicate |-> "none", pending |-> {},
             slots |-> <<>>, completed |-> <<>>, result |-> <<>>]
NoCall == [index |-> 0, result |-> [tag |-> "NoCall", val |-> "none"]]

\* A container of one MS1 frame whose blob is at binary offset 0.
OneFrameContainer ==
    [compression_type |-> 2,
     sql_frames |-> <<[id |-> 1, msms_type |-> 0, scan_count |-> 1,
                       binary_offset |-> 0]>>,
     maldi_table |-> None,
     window_group_rows |-> <<>>,
     quadrupole_settings |-> <<>>,
     compressed_reader_ok |-> TRUE]

\* Positions get is called with: those of the reader and the one past them.
GetIndices(self) == 0..len(self)

InitDecode ==
    /\ overflow_checks \in BOOLEAN
    /\ timscompress = FALSE
    /\ \E blob \in Blobs : blob_store = [offset \in {0} |-> Some(blob)]
    /\ reader = new(OneFrameContainer)
    /\ outcome = NoCall
    /\ ctor = Constructed
    /\ threads = NoThreads
    /\ returned = NoneReturned
    /\ pf = NoFilter

\* A call reader.get(index).
Get(index) ==
    /\ IsOk(reader)
    /\ outcome' = [index |-> index, result |-> get(reader.val, index)]
    /\ UNCHANGED <<environment, reader, ctor, threads, returned, pf>>

NextDecode == \E index \in GetIndices(reader.val) : Get(index)

SpecDecode == InitDecode /\ [][NextDecode]_vars

\* ----------------------------------------------- properties of the decode

\* The blob of the frame the last call of get decoded, and what the claims
\* call scan_count, blob_len and peak_count of it.
DecodedBlob == blob_store[get_binary_offset(reader.val, outcome.index)][1]
Decoded == outcome.result.tag = "Ok"
HeaderScanCount == DecodedBlob[1]
PeakCount == (Len(DecodedBlob) - HeaderScanCount) \div 2
OddRemainder == (Len(DecodedBlob) - HeaderScanCount) % 2 = 1

\* C1: a frame get returns has scan_offsets of length scan_count + 1, first
\* element 0, last element peak_count, and no element above its successor.
C1_ScanOffsetsShape ==
    Decoded =>
        LET scan_offsets == outcome.result.val.scan_offsets
        IN  /\ Len(scan_offsets) = HeaderScanCount + 1
            /\ scan_offsets[1] = 0
            /\ scan_offsets[Len(scan_offsets)] = PeakCount
            /\ \A k \in 1..(Len(scan_offsets) - 1) :
                   scan_offsets[k] <= scan_offsets[k + 1]

\* C2: a frame get returns has exactly peak_count tof_indices and exactly
\* peak_count intensities.
C2_PeakArrayLengths ==
    Decoded =>
        /\ Len(outcome.result.val.tof_indices) = PeakCount
        /\ Len(outcome.result.val.intensities) = PeakCount

\* The positions (1-based) of consecutive peaks of one scan of a frame.
ConsecutiveInScan(frame) ==
    {p \in 1..(Len(frame.tof_indices) - 1) :
        \E k \in 1..(Len(frame.scan_offsets) - 1) :
            /\ frame.scan_offsets[k] < p
            /\ p + 1 <= frame.scan_offsets[k + 1]}

\* C3: in a frame get returns, the tof_indices of consecutive peaks of one
\* scan are strictly increasing.
C3_TofStrictlyIncreasing ==
    Decoded =>
        \A p \in ConsecutiveInScan(outcome.result.val) :
            outcome.result.val.tof_indices[p] < outcome.result.val.tof_indices[p + 1]

\* C4: get on a blob whose (blob_len - scan_count) is odd returns CorruptFrame.
C4_OddRemainderIsCorrupt ==
    (outcome.result.tag # "NoCall" /\ outcome.index < len(reader.val)
        /\ DecodedBlob # <<>> /\ OddRemainder)
    => IsErr(outcome.result, "CorruptFrame")

\* C5: get on any blob ends with a frame whose peak arrays are filled or
\* with CorruptFrame, CorruptFrame it is when the header word is missing, and
\* get never aborts.
C5_FrameOrCorruptFrame ==
    (outcome.result.tag # "NoCall" /\ outcome.index < len(reader.val))
    => /\ \/ IsErr(outcome.result, "CorruptFrame")
          \/ Decoded /\ Len(outcome.result.val.scan_offsets) >= 1
       /\ DecodedBlob = <<>> => IsErr(outcome.result, "CorruptFrame")

\* The reference derivation of the claims, over the words W of the decoded
\* blob (W[i] of the text is DecodedBlob[i + 1]) in unbounded integers.
RECURSIVE HalfSizeSum(_)
HalfSizeSum(k) ==
    IF k = 0 THEN 0 ELSE HalfSizeSum(k - 1) + (DecodedBlob[k + 1] \div 2)

\* scan_offsets[k] for k in 0..scan_count: the sizes W[1..k] halved and
\* summed, the last entry peak_count.
ReferenceScanOffset(k) ==
    IF k = HeaderScanCount THEN PeakCount ELSE HalfSizeSum(k)

\* The sum of the deltas W[scan_count + 2q] for q from first through p.
RECURSIVE DeltaSum(_, _)
DeltaSum(first, p) ==
    IF p < first THEN 0
    ELSE DeltaSum(first, p - 1) + DecodedBlob[HeaderScanCount + 2 * p + 1]

\* The scans (0-based) whose range of peaks holds peak p.
ScansOf(frame, p) ==
    {s \in 0..(Len(frame.scan_offsets) - 2) :
        frame.scan_offsets[s + 1] <= p /\ p < frame.scan_offsets[s + 2]}

\* The two worked blobs: words [1, 3, 7] decode to scan_offsets [0, 1],
\* intensities [7], tof_indices [2]; words [2, 4, 5, 9, 3, 11] give
\* scan_offsets [0, 2, 2] (read_scan_offsets reads the size word only).
WorkedExamples ==
    /\ decode_compression_type_2(DefaultFrame, <<1, 3, 7>>)
           = Ok([DefaultFrame EXCEPT !.scan_offsets = <<0, 1>>,
                                     !.intensities = <<7>>,
                                     !.tof_indices = <<2>>])
    /\ read_scan_offsets(2, 2, <<2, 4, 5, 9, 3, 11>>) = Ok(<<0, 2, 2>>)

\* C15: a frame get returns equals the reference derivation: scan_offsets[k]
\* is the sum of W[1..k] halved with the last entry peak_count,
\* intensities[p] is W[scan_count + 1 + 2p], and tof_indices[p] is the sum of
\* the deltas W[scan_count + 2q] from the first peak of p's scan through p,
\* less 1; the two worked blobs decode as stated.
C15_DecodedEqualsReference ==
    /\ WorkedExamples
    /\ Decoded =>
        LET frame == outcome.result.val
        IN  /\ Len(frame.scan_offsets) = HeaderScanCount + 1
            /\ \A k \in 0..HeaderScanCount :
                   frame.scan_offsets[k + 1] = ReferenceScanOffset(k)
            /\ Len(frame.intensities) = PeakCount
            /\ \A p \in 0..(PeakCount - 1) :
                   frame.intensities[p + 1]
                       = DecodedBlob[HeaderScanCount + 1 + 2 * p + 1]
            /\ Len(frame.tof_indices) = PeakCount
            /\ \A p \in 0..(PeakCount - 1) :
                   \E s \in ScansOf(frame, p) :
                       frame.tof_indices[p + 1]
                           = DeltaSum(frame.scan_offsets[s + 1], p) - 1

\* ------------------------------------------------------ the container read

\* MsMsType values of the Frames table: 0 (MS1), 8 (DDA MS2), 9 (DIA MS2) and
\* 2, a value read_from_msms_type does not know.
MsMsTypes == {0, 2, 8, 9}

\* Frames tables: at most MaxFrames rows in Id order, the Ids consecutive
\* from 1 or from 2, a row's blob at binary offset Id - 1.
FrameRow(id, msms_type) ==
    [id |-> id, msms_type |-> msms_type, scan_count |-> id,
     binary_offset |-> id - 1]

FramesTables ==
    UNION {{[k \in 1..n |-> FrameRow(first + k - 1, types[k])] :
               first \in {1, 2}, types \in [1..n -> MsMsTypes]} :
           n \in 0..MaxFrames}

\* The keys of the MaldiFrameInfo and window-group tables.
FrameKeys == 1..(MaxFrames + 1)

\* The MaldiFrameInfo row of a frame key; the optional columns are NULL for
\* even keys.
MaldiRow(key) ==
    [frame |-> key,
     spot_name |-> "spot-A",
     x_index_pos |-> 10 + key,
     y_index_pos |-> 20 + key,
     x_position |-> IF key % 2 = 1 THEN Some("12.5") ELSE None,
     y_position |-> IF key % 2 = 1 THEN Some("25.0") ELSE None,
     laser_power |-> IF key % 2 = 1 THEN Some("0.9") ELSE None,
     laser_rep_rate |-> IF key % 2 = 1 THEN Some("200.0") ELSE None,
     laser_shots |-> IF key % 2 = 1 THEN Some(50) ELSE None]

\* The keys of a set in ascending order.
RECURSIVE KeysInOrder(_)
KeysInOrder(keys) ==
    IF keys = {} THEN <<>>
    ELSE LET least == CHOOSE k \in keys : \A j \in keys : k <= j
         IN  <<least>> \o KeysInOrder(keys \ {least})

\* MaldiFrameInfo: no table, or a table with a row for each key of a set.
MaldiTables ==
    {None} \cup
    {Some([i \in 1..Cardinality(keys) |-> MaldiRow(KeysInOrder(keys)[i])]) :
        keys \in SUBSET FrameKeys}

\* The window-group mapping: a row for some of the frames 1..MaxFrames, each
\* with window group 1 or 2.
WindowGroupTables ==
    UNION {{[i \in 1..Cardinality(keys) |->
                [frame |-> KeysInOrder(keys)[i],
                 window_group |-> groups[KeysInOrder(keys)[i]]]] :
               groups \in [keys -> {1, 2}]} :
           keys \in SUBSET (1..MaxFrames)}

\* What QuadrupoleSettingsReader::new returns: one or two window settings.
QuadrupoleSettingsLists == {<<1>>, <<1, 2>>}

\* The compression types the metadata may report.
CompressionTypes == {1, 2, 3}

\* ------------------------------------------------------- FrameReader::new

\* The locals of new before its first statement; reported is the compression
\* type the metadata gave, tables_read the tables queried so far.
StartConstruction ==
    [pc |-> "metadata", reported |-> None, compression_type |-> 0,
     sql_frames |-> <<>>,
     maldi_info |-> <<>>, is_maldi |-> FALSE, maldi_map |-> <<>>,
     acquisition |-> "Unknown", window_group_rows |-> <<>>,
     window_groups |-> <<>>, quadrupole_settings |-> <<>>, frames |-> <<>>,
     tables_read |-> {}]

InitNew ==
    /\ overflow_checks \in BOOLEAN
    /\ timscompress \in BOOLEAN
    /\ blob_store = <<>>
    /\ reader = NotConstructed
    /\ outcome = NoCall
    /\ ctor = StartConstruction
    /\ threads = NoThreads
    /\ returned = NoneReturned
    /\ pf = NoFilter

\* new returns: the reader, an error or a panic ends the construction.
Return(result) ==
    /\ reader' = result
    /\ ctor' = [ctor EXCEPT !.pc = "done"]

Continue(next) ==
    /\ ctor' = next
    /\ UNCHANGED reader

\* MetadataReader::new(&path)?.compression_type and the match on it.
NewCompressionType ==
    /\ ctor.pc = "metadata"
    /\ \/ Return(MetadataReaderError)
       \/ \E reported \in CompressionTypes :
             LET compression_type == check_compression_type(reported)
             IN  IF IsOk(compression_type)
                 THEN Continue([ctor EXCEPT !.pc = "frames",
                                  !.reported = Some(reported),
                                  !.compression_type = compression_type.val])
                 ELSE /\ reader' = compression_type
                      /\ ctor' = [ctor EXCEPT !.pc = "done",
                                    !.reported = Some(reported)]
    /\ UNCHANGED <<environment, outcome, threads, returned, pf>>

\* SqlReader::open and SqlFrame::from_sql_reader.
NewReadFrames ==
    /\ ctor.pc = "frames"
    /\ \/ Return(SqlReaderError)
       \/ \E sql_frames \in FramesTables :
             Continue([ctor EXCEPT !.pc = "maldi",
                         !.sql_frames = sql_frames,
                         !.tables_read = @ \cup {"Frames"}])
    /\ UNCHANGED <<environment, outcome, threads, returned, pf>>

\* read_maldi_frame_info, is_maldi and the map keyed by frame.
NewReadMaldi ==
    /\ ctor.pc = "maldi"
    /\ \/ Return(SqlReaderError)
       \/ \E maldi_table \in MaldiTables :
             LET maldi_info == read_maldi_frame_info(maldi_table)
             IN  Continue([ctor EXCEPT !.pc = "blob_readers",
                             !.maldi_info = maldi_info,
                             !.is_maldi = compute_is_maldi(maldi_info),
                             !.maldi_map = collect_maldi_map(maldi_info),
                             !.tables_read = @ \cup (IF maldi_table = None THEN {}
                                                     ELSE {"MaldiFrameInfo"})])
    /\ UNCHANGED <<environment, outcome, threads, returned, pf>>

\* TdfBlobReader::new, CompressedTdfBlobReader::new under the feature, and
\* the acquisition type.
NewOpenBlobReaders ==
    /\ ctor.pc = "blob_readers"
    /\ \/ Return(TdfBlobReaderError)
       \/ timscompress /\ Return(TimscompressError)
       \/ Continue([ctor EXCEPT !.pc = "window_groups",
                      !.acquisition = detect_acquisition(ctor.sql_frames)])
    /\ UNCHANGED <<environment, outcome, threads, returned, pf>>

\* The window groups and the quadrupole settings, read for DIA-PASEF only.
NewReadWindowGroups ==
    /\ ctor.pc = "window_groups"
    /\ LET zeros == [k \in 1..Len(ctor.sql_frames) |-> 0]
       IN  IF ctor.acquisition = "DIAPASEF"
           THEN \/ Return(SqlReaderError)
                \/ Return(QuadrupoleSettingsReaderError)
                \/ \E rows \in WindowGroupTables,
                      quadrupole_settings \in QuadrupoleSettingsLists :
                      LET window_groups == assign_window_groups(rows, 1, zeros)
                      IN  IF IsOk(window_groups)
                          THEN Continue([ctor EXCEPT !.pc = "build_frames",
                                           !.window_group_rows = rows,
                                           !.window_groups = window_groups.val,
                                           !.quadrupole_settings = quadrupole_settings,
                                           !.tables_read = @ \cup {"WindowGroups"}])
                          ELSE /\ reader' = Panic
                               /\ ctor' = [ctor EXCEPT !.pc = "done",
                                             !.window_group_rows = rows,
                                             !.tables_read = @ \cup {"WindowGroups"}]
           ELSE Continue([ctor EXCEPT !.pc = "build_frames",
                            !.window_groups = zeros,
                            !.quadrupole_settings = <<>>])
    /\ UNCHANGED <<environment, outcome, threads, returned, pf>>

\* The parallel map of get_frame_without_data over 0..sql_frames.len().
NewBuildFrames ==
    /\ ctor.pc = "build_frames"
    /\ LET frames == build_frames(ctor.sql_frames, ctor.acquisition,
                                  ctor.window_groups, ctor.quadrupole_settings,
                                  ctor.maldi_map)
       IN  IF IsOk(frames)
           THEN Continue([ctor EXCEPT !.pc = "finish", !.frames = frames.val])
           ELSE Return(Panic)
    /\ UNCHANGED <<environment, outcome, threads, returned, pf>>

\* The largest scan count (feature timscompress), the offsets and the reader.
NewFinish ==
    /\ ctor.pc = "finish"
    /\ LET scan_count == compute_scan_count(ctor.sql_frames)
       IN  IF IsOk(scan_count)
           THEN Return(Ok(make_reader(ctor.frames, ctor.acquisition,
                                      compute_offsets(ctor.sql_frames),
                                      ctor.quadrupole_settings,
                                      ctor.compression_type, scan_count.val,
                                      ctor.is_maldi)))
           ELSE Return(Panic)
    /\ UNCHANGED <<environment, outcome, threads, returned, pf>>

NextNew ==
    \/ NewCompressionType
    \/ NewReadFrames
    \/ NewReadMaldi
    \/ NewOpenBlobReaders
    \/ NewReadWindowGroups
    \/ NewBuildFrames
    \/ NewFinish

SpecNew == InitNew /\ [][NextNew]_vars

\* ------------------------------------------ properties of the construction

\* new has returned a reader.
ReaderBuilt == ctor.pc = "done" /\ IsOk(reader)

\* The positions (1-based) of the DIA MS2 rows that the window-group mapping
\* left at window group 0, once the mapping has been read and applied.
UnmappedDiaMs2 ==
    IF ctor.acquisition = "DIAPASEF"
       /\ Len(ctor.window_groups) = Len(ctor.sql_frames)
    THEN {k \in 1..Len(ctor.sql_frames) :
             /\ ctor.sql_frames[k].msms_type = 9
             /\ ctor.window_groups[k] = 0}
    ELSE {}

\* C9: when the Frames table holds a DIA MS2 frame with no row in the
\* window-group mapping, new returns a reader, and that frame has window
\* group 0 and the default quadrupole settings.
C9_UnmappedDiaFrameTolerated ==
    (ctor.pc = "done" /\ UnmappedDiaMs2 # {})
    => /\ IsOk(reader)
       /\ \A k \in UnmappedDiaMs2 :
              /\ reader.val.frames[k].window_group = 0
              /\ reader.val.frames[k].quadrupole_settings = DefaultQuadrupoleSettings

SomeFrameHasMaldiInfo ==
    \E k \in 1..Len(reader.val.frames) : reader.val.frames[k].maldi_info # None

SomeMaldiRowMatchesAFrame ==
    \E m \in 1..Len(ctor.maldi_info), k \in 1..Len(ctor.sql_frames) :
        ctor.maldi_info[m].frame = ctor.sql_frames[k].id

\* C10 as stated: after construction is_maldi is true exactly when some
\* skeleton has maldi_info.
C10_IsMaldiIffSomeFrameHasMaldiInfo ==
    ReaderBuilt => (reader.val.is_maldi <=> SomeFrameHasMaldiInfo)

\* C10 as amended: after construction is_maldi is true exactly when the
\* MaldiFrameInfo table gave at least one row; a skeleton with maldi_info
\* implies is_maldi, and is_maldi implies a skeleton with maldi_info when
\* some MALDI row's Frame key is the Id of a Frames row.
C10_IsMaldiIffMaldiRows ==
    ReaderBuilt =>
        /\ reader.val.is_maldi <=> (Len(ctor.maldi_info) > 0)
        /\ SomeFrameHasMaldiInfo => reader.val.is_maldi
        /\ (reader.val.is_maldi /\ SomeMaldiRowMatchesAFrame) => SomeFrameHasMaldiInfo

\* A reader over MALDI rows none of which matches a frame: is_maldi is true
\* and no skeleton has maldi_info.
C10_Witness ==
    /\ ReaderBuilt
    /\ Len(reader.val.frames) > 0
    /\ reader.val.is_maldi
    /\ ~SomeFrameHasMaldiInfo

\* The MALDI rows read whose Frame key is id.
MaldiRowsOf(id) ==
    {m \in 1..Len(ctor.maldi_info) : ctor.maldi_info[m].frame = id}

\* info carries the columns of the MALDI row unchanged.
CopiedFrom(info, row) ==
    /\ info.spot_name = row.spot_name
    /\ info.pixel_x = row.x_index_pos
    /\ info.pixel_y = row.y_index_pos
    /\ info.position_x_um = row.x_position
    /\ info.position_y_um = row.y_position
    /\ info.laser_power = row.laser_power
    /\ info.laser_rep_rate = row.laser_rep_rate
    /\ info.laser_shots = row.laser_shots

\* C11: the skeleton of the Frames row at position k has the row's Id as its
\* index; its maldi_info is present exactly when a MALDI row is keyed by that
\* Id, and then spot name, pixel x/y, position x/y, laser power, repetition
\* rate and shot count are those of that row; otherwise maldi_info is None.
C11_SkeletonIndexAndMaldiInfo ==
    ReaderBuilt =>
        /\ Len(reader.val.frames) = Len(ctor.sql_frames)
        /\ \A k \in 1..Len(ctor.sql_frames) :
              LET frame == reader.val.frames[k]
                  id == ctor.sql_frames[k].id
              IN  /\ frame.index = id
                  /\ (frame.maldi_info # None) <=> (MaldiRowsOf(id) # {})
                  /\ (frame.maldi_info # None) =>
                        \E m \in MaldiRowsOf(id) :
                            CopiedFrom(frame.maldi_info[1], ctor.maldi_info[m])

\* A reader whose Ids differ from the positions: one skeleton carries the
\* MALDI row of its Id with distinct pixel coordinates, another has none
\* although a MALDI row is keyed by its position.
C11_Witness ==
    /\ ReaderBuilt
    /\ \E k \in 1..Len(reader.val.frames) :
          /\ reader.val.frames[k].index # k
          /\ reader.val.frames[k].maldi_info # None
          /\ reader.val.frames[k].maldi_info[1].pixel_x
                 # reader.val.frames[k].maldi_info[1].pixel_y
          /\ reader.val.frames[k].maldi_info[1].laser_shots # None
    /\ \E j \in 1..Len(reader.val.frames) :
          /\ reader.val.frames[j].maldi_info = None
          /\ MaldiRowsOf(j) # {}

\* The groups the window-group rows read give the frame number key.
GroupsMappedTo(key) ==
    {ctor.window_group_rows[m].window_group :
        m \in {n \in 1..Len(ctor.window_group_rows) :
                  ctor.window_group_rows[n].frame = key}}

\* Every window-group row names the Id of a DIA MS2 row of the Frames table.
MappingNamesMs2Ids ==
    \A m \in 1..Len(ctor.window_group_rows) :
        \E k \in 1..Len(ctor.sql_frames) :
            /\ ctor.sql_frames[k].id = ctor.window_group_rows[m].frame
            /\ ctor.sql_frames[k].msms_type = 9

\* C12: in a DIA-PASEF reader the MS2 frame at 1-based position k has the
\* window group the mapping gives frame number k and the quadrupole settings
\* at element window_group - 1 of get_dia_windows(); when the mapping names
\* only Ids of MS2 rows this is the group mapped to the frame's own Id. Every
\* other frame, and every frame of a reader that is not DIA-PASEF, has window
\* group 0 and the default quadrupole settings.
C12_WindowGroupAndQuadrupoleSettings ==
    ReaderBuilt =>
        \A k \in 1..Len(reader.val.frames) :
            LET frame == reader.val.frames[k]
            IN  IF reader.val.acquisition = "DIAPASEF" /\ frame.ms_level = "MS2"
                THEN /\ GroupsMappedTo(k) = {frame.window_group}
                     /\ MappingNamesMs2Ids
                            => GroupsMappedTo(frame.index) = {frame.window_group}
                     /\ reader.val.dia_windows # None
                     /\ frame.window_group \in 1..Len(reader.val.dia_windows[1])
                     /\ frame.quadrupole_settings
                            = reader.val.dia_windows[1][frame.window_group]
                ELSE /\ frame.window_group = 0
                     /\ frame.quadrupole_settings = DefaultQuadrupoleSettings

\* A DIA-PASEF reader with an MS2 frame in window group 1 of two windows and
\* an MS1 frame left at the default.
C12_Witness ==
    /\ ReaderBuilt
    /\ reader.val.acquisition = "DIAPASEF"
    /\ \E k \in 1..Len(reader.val.frames) :
          /\ reader.val.frames[k].ms_level = "MS2"
          /\ reader.val.frames[k].window_group = 1
          /\ Len(reader.val.dia_windows[1]) = 2
          /\ reader.val.frames[k].quadrupole_settings = reader.val.dia_windows[1][1]
    /\ \E j \in 1..Len(reader.val.frames) :
          /\ reader.val.frames[j].ms_level = "MS1"
          /\ reader.val.frames[j].window_group = 0

\* The MsMsType values of the Frames rows read.
MsMsTypesRead ==
    {ctor.sql_frames[k].msms_type : k \in 1..Len(ctor.sql_frames)}

\* C13: the acquisition type of the reader and of every skeleton is DDA-PASEF
\* if some Frames row has MsMsType 8, otherwise DIA-PASEF if some row has
\* MsMsType 9, otherwise Unknown (so 8 next to 9 gives DDA-PASEF), and
\* get_dia_windows() returns a window set exactly for DIA-PASEF.
C13_AcquisitionDetection ==
    ReaderBuilt =>
        LET expected == IF 8 \in MsMsTypesRead THEN "DDAPASEF"
                        ELSE IF 9 \in MsMsTypesRead THEN "DIAPASEF"
                        ELSE "Unknown"
        IN  /\ get_acquisition(reader.val) = expected
            /\ \A k \in 1..Len(reader.val.frames) :
                  reader.val.frames[k].acquisition_type = expected
            /\ (get_dia_windows(reader.val) # None) <=> (expected = "DIAPASEF")

\* A reader over a Frames table with MsMsType 8 and 9: DDA-PASEF, no windows.
C13_Witness ==
    /\ ReaderBuilt
    /\ {8, 9} \subseteq MsMsTypesRead
    /\ get_acquisition(reader.val) = "DDAPASEF"
    /\ get_dia_windows(reader.val) = None
    /\ \E k \in 1..Len(reader.val.frames) :
          /\ ctor.sql_frames[k].msms_type = 9
          /\ reader.val.frames[k].acquisition_type = "DDAPASEF"

\* The compression types new accepts in this build.
Supported(compression_type) ==
    \/ compression_type = 2
    \/ timscompress /\ compression_type = 3

\* C14: when the metadata reports a compression type other than 2 (and other
\* than 3 with the timscompress backend), new fails at once with
\* CompressionTypeError carrying that value, no Frames, MALDI or window-group
\* table has been read and no reader exists; without the backend this
\* includes type 3, and a reader that exists decodes with the type reported.
C14_UnsupportedCompressionType ==
    /\ (ctor.reported # None /\ ~Supported(ctor.reported[1]))
           => /\ ctor.pc = "done"
              /\ reader = CompressionTypeError(ctor.reported[1])
              /\ ctor.tables_read = {}
    /\ (ctor.reported # None /\ ~timscompress /\ ctor.reported[1] = 3)
           => ~IsOk(reader)
    /\ ReaderBuilt
           => /\ ctor.reported # None
              /\ Supported(ctor.reported[1])
              /\ reader.val.compression_type = ctor.reported[1]

\* Without the backend the metadata reported type 3 and new failed with
\* CompressionTypeError(3) before reading a table.
C14_Witness ==
    /\ ~timscompress
    /\ ctor.pc = "done"
    /\ ctor.reported = Some(3)
    /\ reader = CompressionTypeError(3)
    /\ ctor.tables_read = {}

\* ------------------------------------------------------ readers in use

\* The binary file of the readers in use: a blob that decodes at offset 0, a
\* blob with header scan_count 0 at offset 1, nothing readable at offset 2.
ReadBlobStore ==
    [offset \in 0..2 |->
        CASE offset = 0 -> Some(<<1, 3, 7>>)
          [] offset = 1 -> Some(<<0>>)
          [] offset = 2 -> None]

\* Frames tables of the readers in use: Ids 1..n, every row with one of the
\* given MsMsTypes, the blobs of successive rows at successive offsets of the
\* binary file (cyclically) from some first offset on.
ReadFramesTables(msms_types) ==
    UNION {{[k \in 1..n |->
                [id |-> k, msms_type |-> types[k], scan_count |-> 1,
                 binary_offset |-> (first + k - 1) % Cardinality(DOMAIN ReadBlobStore)]] :
               types \in [1..n -> msms_types], first \in DOMAIN ReadBlobStore} :
           n \in 0..MaxFrames}

ReadContainers(msms_types) ==
    {[compression_type |-> compression_type,
      sql_frames |-> sql_frames,
      maldi_table |-> None,
      window_group_rows |-> <<>>,
      quadrupole_settings |-> <<>>,
      compressed_reader_ok |-> TRUE] :
        compression_type \in {2, 3},
        sql_frames \in ReadFramesTables(msms_types)}

\* Concurrent callers of get on a constructed reader.
Init ==
    /\ overflow_checks \in BOOLEAN
    /\ timscompress \in BOOLEAN
    /\ blob_store = ReadBlobStore
    /\ \E container \in ReadContainers({0}) :
          /\ IsOk(new(container))
          /\ reader = new(container)
    /\ outcome = NoCall
    /\ ctor = Constructed
    /\ threads = NoThreads
    /\ returned = NoneReturned
    /\ pf = NoFilter

\* A call of get by thread t ends with a result: a direct call returns it to
\* the caller, a task of parallel_filter hands it to the collect.
Complete(t, index, result) ==
    /\ threads' = [threads EXCEPT ![t] = IdleThread]
    /\ IF threads[t].job = "filter"
       THEN /\ pf' = [pf EXCEPT !.slots[index] = Some(result),
                                !.completed = Append(@, index)]
            /\ UNCHANGED <<outcome, returned>>
       ELSE /\ outcome' = [index |-> index, result |-> result]
            /\ returned' = Record(index, result)
            /\ UNCHANGED pf

\* Thread t calls get(index): the dispatch on the compression type and
\* get_frame_without_coordinates.
GetStart(t, index) ==
    /\ IsOk(reader)
    /\ threads[t].pc = "idle"
    /\ LET self == reader.val
           frame == get_frame_without_coordinates(self, index)
       IN  IF IsOk(frame)
           THEN /\ threads' = [threads EXCEPT ![t] =
                      [pc |-> "blob", job |-> "get", index |-> index,
                       frame |-> frame.val, blob |-> <<>>]]
                /\ UNCHANGED <<outcome, returned, pf>>
           ELSE /\ outcome' = [index |-> index, result |-> frame]
                /\ returned' = Record(index, frame)
                /\ UNCHANGED <<threads, pf>>
    /\ UNCHANGED <<environment, reader, ctor>>

\* Thread t reads the binary offset and the blob (compression type 2), or
\* takes the decoded arrays from the compressed reader (compression type 3).
GetReadBlob(t) ==
    /\ threads[t].pc = "blob"
    /\ LET self == reader.val
           index == threads[t].index
           offset == get_binary_offset(self, index)
       IN  IF self.compression_type = 2
           THEN LET blob == tdf_bin_reader_get(offset)
                IN  IF IsOk(blob)
                    THEN /\ threads' = [threads EXCEPT ![t].pc = "decode",
                                                       ![t].blob = blob.val]
                         /\ UNCHANGED <<outcome, returned, pf>>
                    ELSE Complete(t, index, blob)
           ELSE LET raw_frame == get_raw_frame_data(offset, self.scan_count)
                IN  Complete(t, index,
                        Ok([threads[t].frame EXCEPT
                               !.tof_indices = raw_frame.tof_indices,
                               !.intensities = raw_frame.intensities,
                               !.scan_offsets = raw_frame.scan_offsets]))
    /\ UNCHANGED <<environment, reader, ctor>>

\* A slip: the decoded arrays are cached in the skeleton store.
GetDecode_caching(t) ==
    /\ threads[t].pc = "decode"
    /\ LET result == decode_compression_type_2(threads[t].frame, threads[t].blob)
       IN  /\ Complete(t, threads[t].index, result)
           /\ reader' = IF IsOk(result)
                        THEN [reader EXCEPT !.val.frames[threads[t].index + 1] = result.val]
                        ELSE reader
    /\ UNCHANGED <<environment, ctor>>

\* Thread t decodes the blob it read into the cloned skeleton.
GetDecode(t) ==
    /\ threads[t].pc = "decode"
    /\ Complete(t, threads[t].index,
                decode_compression_type_2(threads[t].frame, threads[t].blob))
    /\ UNCHANGED <<environment, reader, ctor>>

\* Positions get is called with: those of the reader and two past them.
CallIndices == 0..(len(reader.val) + 1)

Next ==
    \/ \E t \in Threads, index \in CallIndices : GetStart(t, index)
    \/ \E t \in Threads : GetReadBlob(t)
    \/ \E t \in Threads : GetDecode(t)

Spec == Init /\ [][Next]_vars

\* ------------------------------------------------ filter, parallel_filter

\* The predicates of get_all, get_all_ms1 and get_all_ms2.
Predicates == {"all", "ms1", "ms2"}

predicate(name, frame) ==
    CASE name = "all" -> TRUE
      [] name = "ms1" -> frame.ms_level = "MS1"
      [] name = "ms2" -> frame.ms_level = "MS2"

\* FrameReader::filter: the results of get for the positions from x on whose
\* skeleton passes the predicate, in ascending order.
RECURSIVE filter_from(_, _, _)
filter_from(self, name, x) ==
    IF x >= len(self) THEN <<>>
    ELSE (IF predicate(name, self.frames[x + 1]) THEN <<get(self, x)>> ELSE <<>>)
         \o filter_from(self, name, x + 1)

filter(self, name) == filter_from(self, name, 0)

\* Collecting an iterator of results: a panic of one get is the panic of the
\* collecting caller.
collected(results) ==
    IF \E k \in 1..Len(results) : IsPanic(results[k]) THEN Panic
    ELSE Ok(results)

\* The mark of a position the predicate rejected.
Filtered == [tag |-> "Filtered", val |-> "none"]

\* A slip: the results gathered in the order the tasks finished.
collect_in_completion_order(slots, completed) ==
    collected([k \in 1..Len(completed) |-> slots[completed[k]][1]])

\* The collect of the parallel iterator: the results of the positions that
\* passed, in the order of the positions.
collect(slots, completed) ==
    LET passed == KeysInOrder({x \in DOMAIN slots : slots[x][1] # Filtered})
    IN  collected([k \in 1..Len(passed) |-> slots[passed[k]][1]])

\* parallel_filter(predicate).collect() is called: one task per position.
ParallelFilterStart(name) ==
    /\ IsOk(reader)
    /\ pf.state = "idle"
    /\ pf' = [state |-> "running", predicate |-> name,
              pending |-> 0..(len(reader.val) - 1),
              slots |-> [x \in 0..(len(reader.val) - 1) |-> None],
              completed |-> <<>>, result |-> <<>>]
    /\ UNCHANGED <<environment, reader, ctor, outcome, threads, returned>>

\* Worker t takes the task of position x: the predicate on the skeleton and,
\* when it passes, get(x) up to the cloned skeleton.
WorkerFilter(t, x) ==
    /\ pf.state = "running"
    /\ x \in pf.pending
    /\ threads[t].pc = "idle"
    /\ LET self == reader.val
           frame == get_frame_without_coordinates(self, x)
       IN  IF ~predicate(pf.predicate, self.frames[x + 1])
           THEN /\ pf' = [pf EXCEPT !.pending = @ \ {x},
                                    !.slots[x] = Some(Filtered)]
                /\ UNCHANGED threads
           ELSE IF IsOk(frame)
           THEN /\ pf' = [pf EXCEPT !.pending = @ \ {x}]
                /\ threads' = [threads EXCEPT ![t] =
                      [pc |-> "blob", job |-> "filter", index |-> x,
                       frame |-> frame.val, blob |-> <<>>]]
           ELSE /\ pf' = [pf EXCEPT !.pending = @ \ {x},
                                    !.slots[x] = Some(frame),
                                    !.completed = Append(@, x)]
                /\ UNCHANGED threads
    /\ UNCHANGED <<environment, reader, ctor, outcome, returned>>

\* Every task has finished: the caller gets the collected vector.
Collect ==
    /\ pf.state = "running"
    /\ \A x \in DOMAIN pf.slots : pf.slots[x] # None
    /\ pf' = [pf EXCEPT !.state = "collected",
                        !.result = collect(pf.slots, pf.completed)]
    /\ UNCHANGED <<environment, reader, ctor, outcome, threads, returned>>

InitFilter ==
    /\ overflow_checks \in BOOLEAN
    /\ timscompress \in BOOLEAN
    /\ blob_store = ReadBlobStore
    /\ \E container \in ReadContainers({0, 8}) :
          /\ IsOk(new(container))
          /\ reader = new(container)
    /\ outcome = NoCall
    /\ ctor = Constructed
    /\ threads = NoThreads
    /\ returned = NoneReturned
    /\ pf = NoFilter

NextFilter ==
    \/ \E name \in Predicates : ParallelFilterStart(name)
    \/ \E t \in Threads, x \in 0..(len(reader.val) - 1) : WorkerFilter(t, x)
    \/ \E t \in Threads : GetReadBlob(t)
    \/ \E t \in Threads : GetDecode(t)
    \/ Collect

SpecFilter == InitFilter /\ [][NextFilter]_vars

\* ------------------------------------------------------ properties of get

\* C6: get(i) with i >= len() returns IndexOutOfBounds, on every reader.
C6_IndexOutOfBounds ==
    \A i \in DOMAIN returned :
        i >= len(reader.val) =>
            /\ IsErr(returned[i].first, "IndexOutOfBounds")
            /\ IsErr(returned[i].last, "IndexOutOfBounds")

\* get(len()) and get(len() + 1) have returned on a reader with frames.
C6_Witness ==
    /\ len(reader.val) > 0
    /\ {len(reader.val), len(reader.val) + 1} \subseteq DOMAIN returned
    /\ IsErr(returned[len(reader.val)].last, "IndexOutOfBounds")

\* C7: no step of a call of get changes the reader (skeleton store, offsets,
\* acquisition type, is_maldi, DIA windows) or the binary file, and every
\* get(i) returns what the first get(i) returned.
C7_GetLeavesReaderUnchanged ==
    [][/\ reader' = reader
       /\ blob_store' = blob_store
       /\ \A i \in DOMAIN returned' : returned'[i].last = returned'[i].first]_vars

\* get(i) has returned a frame more than once, after another call failed and
\* while a further call is under way.
C7_Witness ==
    /\ \E i \in DOMAIN returned : returned[i].again /\ IsOk(returned[i].first)
    /\ \E j \in DOMAIN returned : returned[j].again /\ ~IsOk(returned[j].first)
    /\ \E t \in Threads : threads[t].pc = "decode"

\* C8: the vector parallel_filter(pred).collect() gives is the results of
\* get for the positions whose skeleton passes pred, in ascending order of
\* position, as filter(pred) yields them; get_all() has len() elements and
\* its element i is get(i).
C8_ParallelFilterKeepsOrder ==
    pf.state = "collected" =>
        /\ pf.result = collected(filter(reader.val, pf.predicate))
        /\ (pf.predicate = "all" /\ IsOk(pf.result)) =>
               /\ Len(pf.result.val) = len(reader.val)
               /\ \A i \in 0..(len(reader.val) - 1) :
                      pf.result.val[i + 1] = get(reader.val, i)

\* A collected parallel_filter whose later position finished first.
C8_Witness ==
    /\ pf.state = "collected"
    /\ IsOk(pf.result)
    /\ Len(pf.result.val) >= 2
    /\ Len(pf.completed) >= 2
    /\ pf.completed[1] > pf.completed[2]

=============================================================================
